---- MODULE Spec2Model ----
(***************************************************************************)
(* BME680/BME688 support of package bmxx80: calibration parsing            *)
(* (newCalibration68x), the three compensation functions, the idle check   *)
(* (isIdle68x) and the measurement cycle (sense68x).                       *)
(*                                                                         *)
(* Go's int64 and float64 values do not fit the model checker's integers,  *)
(* so they are carried as arbitrary-precision numbers: a natural number is *)
(* a little-endian sequence of 15-bit limbs, an integer is a sign and a    *)
(* magnitude, a float64 is sign * mantissa * 2^exponent rounded to 53 bits *)
(* (round to nearest, ties to even) after every operation.                 *)
(***************************************************************************)
EXTENDS Integers, Sequences, FiniteSets, TLC

\* ------------------------------------------------------------------------
\* Natural numbers of any size: <<l1, l2, ...>> is l1 + l2*2^15 + ...,
\* without leading zero limbs; <<>> is 0.
\* ------------------------------------------------------------------------

LimbBits == 10 + 5

Limb == 2^LimbBits

Pow2(k) == 2^k

RECURSIVE NNorm(_)
NNorm(a) ==
  IF a = <<>> THEN <<>>
  ELSE IF a[Len(a)] = 0 THEN NNorm(SubSeq(a, 1, Len(a) - 1))
  ELSE a

RECURSIVE NFromInt(_)
NFromInt(n) ==
  IF n = 0 THEN <<>> ELSE <<n % Limb>> \o NFromInt(n \div Limb)

\* The value of a natural number known to be below 2^31.
RECURSIVE NToInt(_)
NToInt(a) ==
  IF a = <<>> THEN 0 ELSE a[1] + Limb * NToInt(Tail(a))

RECURSIVE NAddC(_, _, _)
NAddC(a, b, c) ==
  IF a = <<>> /\ b = <<>> THEN (IF c = 0 THEN <<>> ELSE <<c>>)
  ELSE LET x == IF a = <<>> THEN 0 ELSE a[1]
           y == IF b = <<>> THEN 0 ELSE b[1]
           s == x + y + c
       IN  <<s % Limb>> \o NAddC(IF a = <<>> THEN <<>> ELSE Tail(a),
                                 IF b = <<>> THEN <<>> ELSE Tail(b),
                                 s \div Limb)

NAdd(a, b) == NAddC(a, b, 0)

\* a - b for a >= b.
RECURSIVE NSubB(_, _, _)
NSubB(a, b, c) ==
  IF a = <<>> THEN <<>>
  ELSE LET y == IF b = <<>> THEN 0 ELSE b[1]
           d == a[1] - y - c
       IN  <<d % Limb>> \o NSubB(Tail(a),
                                 IF b = <<>> THEN <<>> ELSE Tail(b),
                                 IF d < 0 THEN 1 ELSE 0)

NSub(a, b) == NNorm(NSubB(a, b, 0))

\* -1, 0 or 1 as a < b, a = b or a > b.
RECURSIVE NCmpFrom(_, _, _)
NCmpFrom(a, b, i) ==
  IF i = 0 THEN 0
  ELSE IF a[i] < b[i] THEN -1
  ELSE IF a[i] > b[i] THEN 1
  ELSE NCmpFrom(a, b, i - 1)

NCmp(a, b) ==
  IF Len(a) < Len(b) THEN -1
  ELSE IF Len(a) > Len(b) THEN 1
  ELSE NCmpFrom(a, b, Len(a))

\* a * d + c for one limb d and a carry c below 2^15.
RECURSIVE NMulLimb(_, _, _)
NMulLimb(a, d, c) ==
  IF a = <<>> THEN (IF c = 0 THEN <<>> ELSE <<c>>)
  ELSE LET p == a[1] * d + c
       IN  <<p % Limb>> \o NMulLimb(Tail(a), d, p \div Limb)

NShlLimb(a) == IF a = <<>> THEN <<>> ELSE <<0>> \o a

RECURSIVE NMul(_, _)
NMul(a, b) ==
  IF a = <<>> \/ b = <<>> THEN <<>>
  ELSE NAdd(NNorm(NMulLimb(b, a[1], 0)), NShlLimb(NMul(Tail(a), b)))

RECURSIVE NShlLimbs(_, _)
NShlLimbs(a, n) == IF n = 0 \/ a = <<>> THEN a ELSE NShlLimbs(<<0>> \o a, n - 1)

\* a * 2^k.
NShl(a, k) ==
  NShlLimbs(NNorm(NMulLimb(a, Pow2(k % LimbBits), 0)), k \div LimbBits)

\* floor(a / 2^r) for r < 15.
RECURSIVE NShrSmall(_, _)
NShrSmall(a, r) ==
  IF a = <<>> THEN <<>>
  ELSE LET hi == IF Len(a) > 1 THEN a[2] % Pow2(r) ELSE 0
       IN  <<(a[1] \div Pow2(r)) + hi * Pow2(LimbBits - r)>> \o NShrSmall(Tail(a), r)

\* floor(a / 2^k).
NShr(a, k) ==
  IF k \div LimbBits >= Len(a) THEN <<>>
  ELSE NNorm(NShrSmall(SubSeq(a, (k \div LimbBits) + 1, Len(a)), k % LimbBits))

\* a mod 2^k.
NLow(a, k) ==
  IF k \div LimbBits >= Len(a) THEN a
  ELSE NNorm(SubSeq(a, 1, k \div LimbBits)
             \o <<a[(k \div LimbBits) + 1] % Pow2(k % LimbBits)>>)

RECURSIVE IntBitLen(_)
IntBitLen(n) == IF n = 0 THEN 0 ELSE 1 + IntBitLen(n \div 2)

NBitLen(a) ==
  IF a = <<>> THEN 0 ELSE LimbBits * (Len(a) - 1) + IntBitLen(a[Len(a)])

NBit(a, i) ==
  IF i \div LimbBits >= Len(a) THEN 0
  ELSE (a[(i \div LimbBits) + 1] \div Pow2(i % LimbBits)) % 2

NIsOdd(a) == a # <<>> /\ a[1] % 2 = 1

\* The number of trailing zero bits of a # 0.
RECURSIVE IntTrailingZeros(_)
IntTrailingZeros(n) == IF n % 2 = 1 THEN 0 ELSE 1 + IntTrailingZeros(n \div 2)

RECURSIVE NTrailingZeros(_)
NTrailingZeros(a) ==
  IF a[1] = 0 THEN LimbBits + NTrailingZeros(Tail(a)) ELSE IntTrailingZeros(a[1])

\* One limb of a long division, bit by bit: <<q, r>> becomes
\* <<2^j * q + quotient bits, remainder>> as the low j bits of limb l come down.
RECURSIVE NDivBits(_, _, _, _, _)
NDivBits(l, d, j, q, r) ==
  IF j = 0 THEN <<q, r>>
  ELSE LET r2 == NAddC(NShl(r, 1), <<>>, (l \div Pow2(j - 1)) % 2)
           ge == NCmp(r2, d) >= 0
           q2 == NAddC(NShl(q, 1), <<>>, IF ge THEN 1 ELSE 0)
       IN  IF Len(q2) >= 0 /\ ge
           THEN NDivBits(l, d, j - 1, q2, NSub(r2, d))
           ELSE NDivBits(l, d, j - 1, q2, r2)

RECURSIVE NDivLimbs(_, _, _, _, _)
NDivLimbs(n, d, i, q, r) ==
  IF i = 0 THEN <<q, r>>
  ELSE LET st == NDivBits(n[i], d, LimbBits, q, r)
       IN  IF Len(st[2]) >= 0 THEN NDivLimbs(n, d, i - 1, st[1], st[2]) ELSE st

\* <<quotient, remainder>> of n by d # 0.
NDivMod(n, d) == NDivLimbs(n, d, Len(n), <<>>, <<>>)

\* ------------------------------------------------------------------------
\* Integers of any size (Go's int64 before it is narrowed, and the exact
\* results of int32 operations before they wrap): a sign and a magnitude.
\* ------------------------------------------------------------------------

ZMk(neg, m) == [n |-> neg /\ m # <<>>, m |-> m]

ZZero == ZMk(FALSE, <<>>)

\* Of a model-checker integer (any int32).
ZFromInt(i) ==
  IF i >= 0 THEN ZMk(FALSE, NFromInt(i))
  ELSE ZMk(TRUE, NAdd(NFromInt(-(i + 1)), <<1>>))

\* The value of an integer that fits int32.
ZToInt(z) ==
  IF z.n THEN -NToInt(NSub(z.m, <<1>>)) - 1 ELSE NToInt(z.m)

ZNeg(z) == ZMk(~z.n, z.m)

ZAdd(a, b) ==
  IF a.n = b.n THEN ZMk(a.n, NAdd(a.m, b.m))
  ELSE IF NCmp(a.m, b.m) >= 0 THEN ZMk(a.n, NSub(a.m, b.m))
  ELSE ZMk(b.n, NSub(b.m, a.m))

ZSub(a, b) == ZAdd(a, ZNeg(b))

ZMul(a, b) == ZMk(a.n # b.n, NMul(a.m, b.m))

ZCmp(a, b) ==
  IF a.n /\ ~b.n THEN -1
  ELSE IF ~a.n /\ b.n THEN 1
  ELSE IF a.n THEN NCmp(b.m, a.m)
  ELSE NCmp(a.m, b.m)

\* Go's x >> k on a signed integer: the floor of x / 2^k.
ZShr(z, k) ==
  IF z.n THEN ZMk(TRUE, NShr(NAdd(z.m, NSub(NShl(<<1>>, k), <<1>>)), k))
  ELSE ZMk(FALSE, NShr(z.m, k))

\* Go's x / d for d > 0: the quotient truncated toward zero.
ZQuo(z, d) == ZMk(z.n, NDivMod(z.m, d)[1])

\* Whether z is a value of a signed w-bit integer.
ZFits(z, w) ==
  \/ NBitLen(z.m) < w
  \/ z.n /\ z.m = NShl(<<1>>, w - 1)

\* z narrowed to a signed w-bit integer: its low w bits in two's complement.
ZWrap(z, w) ==
  LET low == NLow(z.m, w)
      u   == IF z.n /\ low # <<>> THEN NSub(NShl(<<1>>, w), low) ELSE low
  IN  IF NBit(u, w - 1) = 1 THEN ZMk(TRUE, NSub(NShl(<<1>>, w), u)) ELSE ZMk(FALSE, u)

\* ------------------------------------------------------------------------
\* Go's int32 arithmetic: every result wraps to 32 bits.
\* ------------------------------------------------------------------------

MinInt32 == -(2^30) - 2^30

MaxInt32 == (2^30 - 1) + 2^30

Int32(z) == ZToInt(ZWrap(z, 32))

Add32(a, b) == Int32(ZAdd(ZFromInt(a), ZFromInt(b)))

Sub32(a, b) == Int32(ZSub(ZFromInt(a), ZFromInt(b)))

Mul32(a, b) == Int32(ZMul(ZFromInt(a), ZFromInt(b)))

Shl32(a, k) == Mul32(a, Pow2(k))

\* a >> k, an arithmetic shift.
Shr32(a, k) == a \div Pow2(k)

\* a / d for d > 0, truncated toward zero.
Quo32(a, d) ==
  IF a >= 0 \/ a % d = 0 THEN a \div d ELSE (a \div d) + 1

\* ------------------------------------------------------------------------
\* Go's float64: s * m * 2^e with s the sign, m an odd natural number of at
\* most 53 bits (or 0) and e the exponent. Every value the compensation
\* formulas produce is far from the ends of the exponent range, so there
\* are no infinities, NaNs or subnormals to carry; the sign of a zero is
\* not kept, nothing reads it.
\* ------------------------------------------------------------------------

MantBits == 50 + 3

FZero == [s |-> 1, m |-> <<>>, e |-> 0]

\* s * m * 2^e without its trailing zero bits.
FCanon(s, m, e) ==
  LET tz == NTrailingZeros(m)
  IN  [s |-> s, m |-> NShr(m, tz), e |-> e + tz]

\* s * m * 2^e rounded to the nearest float64, ties to even.
FRound(s, m, e) ==
  IF m = <<>> THEN FZero
  ELSE IF NBitLen(m) <= MantBits THEN FCanon(s, m, e)
  ELSE LET k    == NBitLen(m) - MantBits
           q    == NShr(m, k)
           c    == NCmp(NLow(m, k), NShl(<<1>>, k - 1))
           up   == c > 0 \/ (c = 0 /\ NIsOdd(q))
       IN  FCanon(s, IF up THEN NAdd(q, <<1>>) ELSE q, e + k)

\* float64(i) of an int32 i: exact.
FFromInt(i) ==
  LET z == ZFromInt(i) IN FRound(IF z.n THEN -1 ELSE 1, z.m, 0)

FNeg(a) == IF a.m = <<>> THEN a ELSE [a EXCEPT !.s = -a.s]

FMul(a, b) == FRound(a.s * b.s, NMul(a.m, b.m), a.e + b.e)

FAdd(a, b) ==
  IF a.m = <<>> THEN b
  ELSE IF b.m = <<>> THEN a
  ELSE LET ex == IF a.e < b.e THEN a.e ELSE b.e
           ma == NShl(a.m, a.e - ex)
           mb == NShl(b.m, b.e - ex)
       IN  IF a.s = b.s THEN FRound(a.s, NAdd(ma, mb), ex)
           ELSE IF NCmp(ma, mb) >= 0 THEN FRound(a.s, NSub(ma, mb), ex)
           ELSE FRound(b.s, NSub(mb, ma), ex)

FSub(a, b) == FAdd(a, FNeg(b))

\* a / b for b # 0: the quotient to at least 55 bits with a sticky bit for
\* a remainder, then rounded. A divisor that is a power of two divides exactly.
FDiv(a, b) ==
  IF a.m = <<>> THEN FZero
  ELSE IF b.m = <<1>> THEN [s |-> a.s * b.s, m |-> a.m, e |-> a.e - b.e]
  ELSE LET k  == MantBits + 2 + NBitLen(b.m)
           qr == NDivMod(NShl(a.m, k), b.m)
       IN  IF qr[2] = <<>> THEN FRound(a.s * b.s, qr[1], a.e - b.e - k)
           ELSE FRound(a.s * b.s, NAddC(NShl(qr[1], 1), <<>>, 1), a.e - b.e - k - 1)

\* The integer part of a float64 (truncation toward zero), of any size.
FTrunc(a) ==
  IF a.m = <<>> THEN ZZero
  ELSE IF a.e >= 0 THEN ZMk(a.s < 0, NShl(a.m, a.e))
  ELSE ZMk(a.s < 0, NShr(a.m, -a.e))

ZShl(z, k) == ZMk(z.n, NShl(z.m, k))

\* Go's int64 arithmetic: every result wraps to 64 bits.
Int64(z) == ZWrap(z, 64)

Add64(a, b) == Int64(ZAdd(a, b))

Sub64(a, b) == Int64(ZSub(a, b))

Mul64(a, b) == Int64(ZMul(a, b))

Shl64(a, k) == Int64(ZShl(a, k))

\* A float64 converted to int32. Go leaves the result to the implementation
\* when the value does not fit: amd64 gives the smallest integer, arm64 the
\* nearest end of the range.
Int32OfFloat(f) ==
  IF ZFits(FTrunc(f), 32) THEN {ZToInt(FTrunc(f))}
  ELSE {MinInt32, IF f.s < 0 THEN MinInt32 ELSE MaxInt32}

\* A float64 converted to int64, with the same freedom.
Int64OfFloat(f) ==
  IF ZFits(FTrunc(f), 64) THEN {FTrunc(f)}
  ELSE {ZMk(TRUE, NShl(<<1>>, 63)),
        IF f.s < 0 THEN ZMk(TRUE, NShl(<<1>>, 63))
        ELSE ZMk(FALSE, NSub(NShl(<<1>>, 63), <<1>>))}

\* ------------------------------------------------------------------------
\* Bytes and bit operations.
\* ------------------------------------------------------------------------

Byte == 0..255

RECURSIVE BitAnd(_, _)
BitAnd(a, b) ==
  IF a = 0 \/ b = 0 THEN 0
  ELSE (a % 2) * (b % 2) + 2 * BitAnd(a \div 2, b \div 2)

RECURSIVE BitOr(_, _)
BitOr(a, b) ==
  IF a = 0 THEN b
  ELSE IF b = 0 THEN a
  ELSE (IF a % 2 = 1 \/ b % 2 = 1 THEN 1 ELSE 0) + 2 * BitOr(a \div 2, b \div 2)

\* Conversions to Go's fixed-width integer types.
Uint16(v) == v % 2^16

AsInt16(v) == ((v + 2^15) % 2^16) - 2^15

AsInt8(v) == ((v + 2^7) % 2^8) - 2^7

\* a | b on int16 operands: the OR of their two's-complement bit patterns.
Or16(a, b) == AsInt16(BitOr(Uint16(a), Uint16(b)))

\* s[i] of a Go slice or array (indices from 0).
At(s, i) == s[i + 1]

\* ------------------------------------------------------------------------
\* newCalibration68x
\* ------------------------------------------------------------------------

\* The index expressions of newCalibration68x in the order they are evaluated.
CalReads ==
  << <<"h", 8>>, <<"h", 9>>,
     <<"tph", 0>>, <<"tph", 1>>, <<"tph", 2>>, <<"tph", 4>>, <<"tph", 5>>,
     <<"tph", 6>>, <<"tph", 7>>, <<"tph", 8>>, <<"tph", 10>>, <<"tph", 11>>,
     <<"tph", 12>>, <<"tph", 13>>, <<"tph", 15>>, <<"tph", 14>>, <<"tph", 18>>,
     <<"tph", 19>>, <<"tph", 20>>, <<"tph", 21>>, <<"tph", 22>>,
     <<"h", 1>>, <<"h", 2>>, <<"h", 1>>, <<"h", 0>>,
     <<"h", 3>>, <<"h", 4>>, <<"h", 5>>, <<"h", 6>>, <<"h", 7>> >>

\* Whether the k-th index expression is within its slice.
InRange(tph, h, k) ==
  CalReads[k][2] < (IF CalReads[k][1] = "tph" THEN Len(tph) ELSE Len(h))

\* The first index expression that is out of range (Go panics there), 0 if none.
FirstPanic(tph, h) ==
  IF \A k \in 1..Len(CalReads) : InRange(tph, h, k) THEN 0
  ELSE CHOOSE k \in 1..Len(CalReads) :
         /\ ~InRange(tph, h, k)
         /\ \A j \in 1..(k - 1) : InRange(tph, h, j)

\* uint16(lo) | uint16(hi)<<8
combineUint16(lo, hi) == BitOr(Uint16(lo), Uint16(Uint16(hi) * 2^8))

\* The pair combined without the sign of int16.
combineInt16Unsigned(lo, hi) == combineUint16(lo, hi)

\* int16(lo) | int16(hi)<<8: the shift wraps within int16.
combineInt16(lo, hi) == Or16(AsInt16(lo), AsInt16(AsInt16(hi) * 2^8))

\* The coefficients, for slices long enough for every index.
calibration68x(tph, h) ==
  [t1  |-> combineUint16(At(h, 31 - 23), At(h, 32 - 23)),
   t2  |-> combineInt16(At(tph, 0), At(tph, 1)),
   t3  |-> AsInt8(At(tph, 2)),
   p1  |-> combineUint16(At(tph, 4), At(tph, 5)),
   p2  |-> combineInt16(At(tph, 6), At(tph, 7)),
   p3  |-> AsInt8(At(tph, 8)),
   p4  |-> combineInt16(At(tph, 10), At(tph, 11)),
   p5  |-> combineInt16(At(tph, 12), At(tph, 13)),
   p6  |-> AsInt8(At(tph, 15)),
   p7  |-> AsInt8(At(tph, 14)),
   p8  |-> combineInt16(At(tph, 18), At(tph, 19)),
   p9  |-> combineInt16(At(tph, 20), At(tph, 21)),
   p10 |-> At(tph, 22),
   h1  |-> BitOr(BitAnd(Uint16(At(h, 24 - 23)), 15),
                 Uint16(Uint16(At(h, 25 - 23)) * 2^4)),
   h2  |-> BitOr(Uint16(At(h, 24 - 23)) \div 2^4,
                 Uint16(Uint16(At(h, 23 - 23)) * 2^4)),
   h3  |-> AsInt8(At(h, 26 - 23)),
   h4  |-> AsInt8(At(h, 27 - 23)),
   h5  |-> AsInt8(At(h, 28 - 23)),
   h6  |-> At(h, 29 - 23),
   h7  |-> AsInt8(At(h, 30 - 23))]

\* The zero value of the struct calibration68x.
ZeroCal ==
  [t1 |-> 0, t2 |-> 0, t3 |-> 0, p1 |-> 0, p2 |-> 0, p3 |-> 0, p4 |-> 0,
   p5 |-> 0, p6 |-> 0, p7 |-> 0, p8 |-> 0, p9 |-> 0, p10 |-> 0, h1 |-> 0,
   h2 |-> 0, h3 |-> 0, h4 |-> 0, h5 |-> 0, h6 |-> 0, h7 |-> 0]

\* newCalibration68x(tph, h): the coefficients, or the run-time panic of the
\* first index out of range (at), with the number of index expressions
\* evaluated before it. The function checks no length and returns no error,
\* so sizeError is never set.
newCalibration68x(tph, h) ==
  IF FirstPanic(tph, h) = 0
  THEN [panic |-> FALSE, sizeError |-> FALSE, indexed |-> Len(CalReads),
        at |-> <<"", 0>>, c |-> calibration68x(tph, h)]
  ELSE [panic |-> TRUE, sizeError |-> FALSE, indexed |-> FirstPanic(tph, h) - 1,
        at |-> CalReads[FirstPanic(tph, h)], c |-> ZeroCal]

\* ------------------------------------------------------------------------
\* compensateTempInt
\* ------------------------------------------------------------------------

\* var1 of compensateTempInt.
tempVar1(c, raw) == Sub64(ZShr(ZFromInt(raw), 3), Shl64(ZFromInt(c.t1), 1))

\* var2 shifted left by 11 instead of right.
tempSumShiftLeft(c, var1) ==
  LET var2  == Int64(ZShl(Mul64(var1, ZFromInt(c.t2)), 11))
      var3a == ZShr(Mul64(ZShr(var1, 1), ZShr(var1, 1)), 12)
      var3  == ZShr(Mul64(var3a, Shl64(ZFromInt(c.t3), 4)), 14)
  IN  Add64(var2, var3)

\* var2 + var3 for a given var1.
tempSum(c, var1) ==
  LET var2  == ZShr(Mul64(var1, ZFromInt(c.t2)), 11)
      var3a == ZShr(Mul64(ZShr(var1, 1), ZShr(var1, 1)), 12)
      var3  == ZShr(Mul64(var3a, Shl64(ZFromInt(c.t3), 4)), 14)
  IN  Add64(var2, var3)

\* The int64 local tFine of compensateTempInt.
tFine64(c, raw) == tempSum(c, tempVar1(c, raw))

\* (tFine*5 + 128) >> 8 in int64, before it is narrowed.
centiOf(tf) == ZShr(Add64(Mul64(tf, ZFromInt(5)), ZFromInt(128)), 8)

centi64(c, raw) == centiOf(tFine64(c, raw))

\* The two results, narrowed to int32.
tempReturn(tf) == <<Int32(centiOf(tf)), Int32(tf)>>

\* <<temperature in 0.01 C, tFine>>
compensateTempInt(c, raw) == tempReturn(tFine64(c, raw))

\* ------------------------------------------------------------------------
\* compensatePressureFloat
\* ------------------------------------------------------------------------

FPow2(k) == [s |-> 1, m |-> <<1>>, e |-> k]

\* var1 = (float64(tFine) / 2.0) - 64000.0
pressHalf(tFine) == FSub(FDiv(FFromInt(tFine), FFromInt(2)), FFromInt(64000))

\* var2 as it stands at the test of the denominator, for that var1.
pressVar2Of(c, var1) ==
  LET var2a == FMul(FMul(var1, var1), FDiv(FFromInt(c.p6), FFromInt(131072)))
      var2b == FAdd(var2a, FMul(FMul(var1, FFromInt(c.p5)), FFromInt(2)))
  IN  FAdd(FDiv(var2b, FFromInt(4)), FMul(FFromInt(c.p4), FFromInt(65536)))

\* The denominator var1 as it stands at the test, for the first var1.
pressVar1Of(c, var1) ==
  LET var1a == FDiv(FAdd(FDiv(FMul(FMul(FFromInt(c.p3), var1), var1), FFromInt(16384)),
                         FMul(FFromInt(c.p2), var1)),
                    FFromInt(524288))
  IN  FMul(FAdd(FFromInt(1), FDiv(var1a, FFromInt(32768))), FFromInt(c.p1))

pressVar2(c, tFine) == pressVar2Of(c, pressHalf(tFine))

pressVar1(c, tFine) == pressVar1Of(c, pressHalf(tFine))

\* calc_pres = ((calc_pres - (var2 / 4096.0)) * 6250.0) / var1
pressQuotient(raw, var2, var1) ==
  FDiv(FMul(FSub(FSub(FFromInt(1048576), FFromInt(raw)), FDiv(var2, FFromInt(4096))),
            FFromInt(6250)),
       var1)

\* (calc_pres / 256.0) * (calc_pres / 256.0) * (calc_pres / 256.0)
pressCube(q) == FMul(FMul(q, q), q)

\* The correction polynomial applied to calc_pres.
pressPoly(c, cp) ==
  LET var1 == FDiv(FMul(FMul(FFromInt(c.p9), cp), cp), FPow2(31))
      var2 == FMul(cp, FDiv(FFromInt(c.p8), FFromInt(32768)))
      var3 == FMul(pressCube(FDiv(cp, FFromInt(256))),
                   FDiv(FFromInt(c.p10), FFromInt(131072)))
  IN  FAdd(cp, FDiv(FAdd(FAdd(FAdd(var1, var2), var3),
                         FMul(FFromInt(c.p7), FFromInt(128))),
                    FFromInt(16)))

\* The branch taken when int32(var1) # 0.
pressDivide(c, raw, tFine) ==
  pressPoly(c, pressQuotient(raw, pressVar2(c, tFine), pressVar1(c, tFine)))

\* The guard testing the float var1 instead of int32(var1).
pressResultFloatGuard(c, raw, tFine, asInt) ==
  IF pressVar1(c, tFine) # FZero
  THEN [calc_pres |-> pressDivide(c, raw, tFine), divided |-> TRUE]
  ELSE [calc_pres |-> FZero, divided |-> FALSE]

\* compensatePressureFloat with int32(var1) = asInt: the pressure in Pa and
\* whether the division by var1 was performed.
pressResult(c, raw, tFine, asInt) ==
  IF asInt # 0
  THEN [calc_pres |-> pressDivide(c, raw, tFine), divided |-> TRUE]
  ELSE [calc_pres |-> FZero, divided |-> FALSE]

\* The results compensatePressureFloat can give: one, unless var1 is outside
\* int32 and the conversion is the implementation's choice.
compensatePressureFloat(c, raw, tFine) ==
  {pressResult(c, raw, tFine, i) : i \in Int32OfFloat(pressVar1(c, tFine))}

\* ------------------------------------------------------------------------
\* compensateHumidityInt
\* ------------------------------------------------------------------------

\* tempScaled, the int32 temperature recomputed from tFine.
tempScaled(tFine) == Shr32(Add32(Mul32(tFine, 5), 128), 8)

\* var3 = var1 * var2 for a given tempScaled.
humVar3(c, raw, ts) ==
  LET var1 == Sub32(Sub32(raw, Mul32(c.h1, 16)),
                    Shr32(Quo32(Mul32(ts, c.h3), 100), 1))
      var2 == Shr32(Mul32(c.h2,
                          Add32(Add32(Quo32(Mul32(ts, c.h4), 100),
                                      Quo32(Shr32(Mul32(ts, Quo32(Mul32(ts, c.h5), 100)), 6),
                                            100)),
                                Shl32(1, 14))),
                    10)
  IN  Mul32(var1, var2)

\* var5 = ((var3 >> 14) * (var3 >> 14)) >> 10
humVar5(s14) == Shr32(Mul32(s14, s14), 10)

\* calcHum before it is capped, for a given tempScaled and var3.
humSum(c, ts, var3) ==
  LET var4 == Shr32(Add32(Shl32(c.h6, 7), Quo32(Mul32(ts, c.h7), 100)), 4)
      var6 == Shr32(Mul32(var4, humVar5(Shr32(var3, 14))), 1)
  IN  Shr32(Mul32(Shr32(Add32(var3, var6), 10), 1000), 12)

humFrom(c, raw, ts) == humSum(c, ts, humVar3(c, raw, ts))

\* calcHum before it is capped.
calcHum(c, raw, tFine) == humFrom(c, raw, tempScaled(tFine))

\* Capped at 100 %rH only.
capHumAbove(v) == IF v > 100000 THEN 100000 ELSE v

\* Cap at 100 %rH and at 0.
capHum(v) ==
  IF v > 100000 THEN 100000
  ELSE IF v < 0 THEN 0
  ELSE v

\* Humidity in 1/1024 %RH.
compensateHumidityInt(c, raw, tFine) == capHum(calcHum(c, raw, tFine))

\* ------------------------------------------------------------------------
\* Package physic: the units sense68x scales to. Temperature and Pressure
\* are int64 (nK, nPa), RelativeHumidity is int32 (0.1 micro-RH).
\* ------------------------------------------------------------------------

MilliCelsius == ZFromInt(1000 * 1000)

ZeroCelsius == ZMul(ZFromInt(273150), ZFromInt(1000 * 1000))

MicroPascal == ZFromInt(1000)

MicroRH == 2 * 5

\* physic.Temperature(t)*10*physic.MilliCelsius + physic.ZeroCelsius
scaleTemperature(t) ==
  Add64(Mul64(Mul64(ZFromInt(t), ZFromInt(10)), MilliCelsius), ZeroCelsius)

\* P * 15625 * physic.MicroPascal / 4 for P = physic.Pressure(p*256)
scalePressure(P) ==
  Int64(ZQuo(Mul64(Mul64(P, ZFromInt(15625)), MicroPascal), <<4>>))

\* h * 10000 / 1024 * physic.MicroRH
scaleHumidity(hum) == Mul32(Quo32(Mul32(hum, 10000), 1024), MicroRH)

\* ------------------------------------------------------------------------
\* sense68x and isIdle68x, piece by piece.
\* ------------------------------------------------------------------------

\* The length of the slice b handed to readReg.
readLen(bme) == IF bme THEN 8 ELSE 6

\* buf after readReg stored data in its first Len(data) bytes.
fillBuf(b, data) ==
  [i \in 1..8 |-> IF i <= Len(data) THEN data[i] ELSE b[i]]

\* int32(b[i])<<12 | int32(b[i+1])<<4 | int32(b[i+2])>>4, a 20-bit value.
raw20(b, i) ==
  BitOr(BitOr(Shl32(At(b, i), 12), Shl32(At(b, i + 1), 4)), Shr32(At(b, i + 2), 4))

\* int32(b[6])<<8 | int32(b[7]), a 16-bit value.
raw16(b) == BitOr(Shl32(At(b, 6), 8), At(b, 7))

\* Pressure computed whatever d.opts.Pressure is.
wantPressureAlways(o) == TRUE

\* d.opts.Pressure != Off and d.opts.Humidity != Off
wantPressure(o) == o.Pressure # "Off"

wantHumidity(o) == o.Humidity # "Off"

\* The error of readReg ignored.
afterReadIgnoringError(rerr) == "temp"

\* Where sense68x goes after readReg returned rerr.
afterRead(rerr) == IF rerr # "nil" THEN "return" ELSE "temp"

\* Humidity placed before pressure.
NextStepHumidityFirst(at) ==
  CASE at = "temp"     -> "humidity"
    [] at = "humidity" -> "pressure"
    [] at = "pressure" -> "return"

\* The order of the statements of sense68x after a successful read.
NextStep(at) ==
  CASE at = "temp"     -> "pressure"
    [] at = "pressure" -> "humidity"
    [] at = "humidity" -> "return"

\* The mask of the comment's bits 5 and 6 instead of 60.
isIdle68xMask96(v) == BitAnd(v, 96) = 0

\* v[0]&60 == 0
isIdle68x(v) == BitAnd(v, 60) = 0

\* ------------------------------------------------------------------------
\* Inputs: calibration memory, measurement registers, the caller's reading.
\* ------------------------------------------------------------------------

MaxCalSeed == 4

MaxRegSeed == 3

\* Calibration memory of a device: 24 bytes from which the tph block is cut,
\* 14 from which the humidity block is cut. 0 is a device at room conditions,
\* 1 blank memory (p1 = 0), 2 all ones, 3 a device whose denominator var1
\* falls just below 1 (p1 = 1, p3 = -1), 4 sign bits only.
CalTph(s) ==
  CASE s = 0 -> <<2, 103, 3, 0, 166, 141, 125, 215, 88, 0, 41, 28,
                  119, 255, 27, 30, 0, 0, 11, 254, 241, 244, 30, 0>>
    [] s = 1 -> [i \in 1..24 |-> 0]
    [] s = 2 -> [i \in 1..24 |-> 255]
    [] s = 3 -> <<2, 103, 3, 0, 1, 0, 0, 0, 255, 0, 41, 28,
                  119, 255, 27, 30, 0, 0, 11, 254, 241, 244, 30, 0>>
    [] s = 4 -> [i \in 1..24 |-> IF i % 2 = 1 THEN 0 ELSE 128]
    [] OTHER -> [i \in 1..24 |-> ((i - 1) * (2 * s + 1) * 29 + s * 53) % 256]

CalH(s) ==
  CASE s = 0 -> <<63, 99, 49, 0, 45, 20, 120, 156, 13, 102, 0, 0, 0, 0>>
    [] s = 1 -> [i \in 1..14 |-> 0]
    [] s = 2 -> [i \in 1..14 |-> 255]
    [] s = 3 -> <<63, 99, 49, 0, 45, 20, 120, 156, 13, 102, 0, 0, 0, 0>>
    [] s = 4 -> [i \in 1..14 |-> IF i % 2 = 1 THEN 0 ELSE 128]
    [] OTHER -> [i \in 1..14 |-> ((i - 1) * (2 * s + 3) * 31 + s * 71) % 256]

CalSeeds == 0..MaxCalSeed

\* The lengths the caller may cut the blocks to.
TphLens == {22, 23}

HLens == {8, 9, 10}

\* What the measurement registers 0x1F..0x26 hold: pressure, temperature,
\* humidity. 0 is room conditions, 1 all zeros, 2 all ones, 3 has the unused
\* low nibbles set.
RegBytes(s) ==
  CASE s = 0 -> <<79, 58, 16, 121, 119, 128, 95, 139>>
    [] s = 1 -> [i \in 1..8 |-> 0]
    [] s = 2 -> [i \in 1..8 |-> 255]
    [] s = 3 -> <<18, 52, 95, 128, 0, 15, 128, 1>>
    [] OTHER -> [i \in 1..8 |-> ((i - 1) * (2 * s + 1) * 37 + s * 91) % 256]

RegSeeds == 0..MaxRegSeed

\* The errors the transport can return.
TransportErrors == {"EIO", "ETIMEDOUT"}

\* The reading the caller passes: a fresh one, or one that already holds an
\* earlier measurement (20 C, 101325 Pa, 50 %rH).
ZeroEnv == [Temperature |-> ZZero, Pressure |-> ZZero, Humidity |-> 0]

StaleEnv ==
  [Temperature |-> ZMul(ZFromInt(293150), ZFromInt(1000 * 1000)),
   Pressure    |-> ZMul(ZFromInt(101325), ZFromInt(1000 * 1000 * 1000)),
   Humidity    |-> 50 * 100000]

EnvInputs == {ZeroEnv, StaleEnv}

Oversampling == {"Off", "O1x"}

\* ------------------------------------------------------------------------
\* State
\* ------------------------------------------------------------------------

VARIABLES
  isBME,     \* d.isBME
  opts,      \* d.opts: Pressure and Humidity oversampling
  cal68x,    \* d.cal68x
  calArgs,   \* the blocks of the last newCalibration68x call
  calRet,    \* what that call did: returned, or panicked
  pc,        \* "idle", or the position within sense68x
  e,         \* the caller's reading *e
  e0,        \* *e as it was when sense68x was entered
  buf,       \* locals of sense68x
  pRaw,
  tRaw,
  t,
  tFine,
  p,
  divided,   \* whether compensatePressureFloat divided by var1
  hRaw,
  h,
  ret,       \* the error sense68x returned, "none" until it returns
  reads,     \* the readReg calls of the operation under way or last done
  steps,     \* the compensation calls of this sense68x call, with arguments
  idle,      \* what the last isIdle68x returned
  arg,       \* arguments and result of a compensation function applied
  res        \* on its own

devVars == <<isBME, opts>>

calVars == <<cal68x, calArgs, calRet>>

locals == <<buf, pRaw, tRaw, t, tFine, p, divided, hRaw, h>>

pureVars == <<arg, res>>

vars == <<isBME, opts, cal68x, calArgs, calRet, pc, e, e0, buf, pRaw, tRaw, t,
          tFine, p, divided, hRaw, h, ret, reads, steps, idle, arg, res>>

NoCalRet ==
  [called |-> FALSE, panic |-> FALSE, sizeError |-> FALSE, indexed |-> 0,
   at |-> <<"", 0>>]

NoIdle == [called |-> FALSE, idle |-> FALSE, err |-> "nil", status |-> 0]

NoArg == [fn |-> "none"]

NoRes == [done |-> FALSE]

ZeroBuf == [i \in 1..8 |-> 0]

\* The locals of sense68x as Go initialises them.
ZeroLocals ==
  /\ buf = ZeroBuf
  /\ pRaw = 0
  /\ tRaw = 0
  /\ t = 0
  /\ tFine = 0
  /\ p = FZero
  /\ divided = FALSE
  /\ hRaw = 0
  /\ h = 0

\* The frame of the next call of sense68x, initialised the same way.
FreshLocals ==
  /\ buf' = ZeroBuf
  /\ pRaw' = 0
  /\ tRaw' = 0
  /\ t' = 0
  /\ tFine' = 0
  /\ p' = FZero
  /\ divided' = FALSE
  /\ hRaw' = 0
  /\ h' = 0

\* A device before its calibration is read, nothing under way.
InitDevice ==
  /\ cal68x = ZeroCal
  /\ calArgs = [tph |-> <<>>, h |-> <<>>]
  /\ calRet = NoCalRet
  /\ pc = "idle"
  /\ e = ZeroEnv
  /\ e0 = ZeroEnv
  /\ ZeroLocals
  /\ ret = "none"
  /\ reads = <<>>
  /\ steps = <<>>
  /\ idle = NoIdle

Init ==
  /\ isBME \in BOOLEAN
  /\ opts \in [Pressure : Oversampling, Humidity : Oversampling]
  /\ InitDevice
  /\ arg = NoArg
  /\ res = NoRes

\* ------------------------------------------------------------------------
\* Operations
\* ------------------------------------------------------------------------

\* The device's calibration memory is read once and parsed.
NewCalibration(s, nt, nh) ==
  /\ pc = "idle"
  /\ ~calRet.called
  /\ LET tph == SubSeq(CalTph(s), 1, nt)
         hb  == SubSeq(CalH(s), 1, nh)
         r   == newCalibration68x(tph, hb)
     IN  /\ calArgs' = [tph |-> tph, h |-> hb]
         /\ calRet' = [called |-> TRUE, panic |-> r.panic, sizeError |-> r.sizeError,
                       indexed |-> r.indexed, at |-> r.at]
         /\ cal68x' = r.c
  /\ UNCHANGED <<devVars, pc, e, e0, locals, ret, reads, steps, idle, pureVars>>

\* isIdle68x: one read of the status register 0x1D.
IsIdle(rerr, v) ==
  /\ pc = "idle"
  /\ calRet.called /\ ~calRet.panic
  /\ pc' = "idleReturn"
  /\ reads' = <<[addr |-> 29, len |-> 1, err |-> rerr,
                 data |-> IF rerr = "nil" THEN <<v>> ELSE <<>>]>>
  /\ idle' = IF rerr # "nil"
             THEN [called |-> TRUE, idle |-> FALSE, err |-> rerr, status |-> 0]
             ELSE [called |-> TRUE, idle |-> isIdle68x(v), err |-> "nil", status |-> v]
  /\ UNCHANGED <<devVars, calVars, e, e0, locals, ret, steps, pureVars>>

\* isIdle68x has returned idle.
IdleReturn ==
  /\ pc = "idleReturn"
  /\ pc' = "idle"
  /\ reads' = <<>>
  /\ idle' = NoIdle
  /\ UNCHANGED <<devVars, calVars, e, e0, locals, ret, steps, pureVars>>

\* sense68x is entered with the caller's reading: the one of the call before,
\* a fresh one, or one filled by an earlier measurement.
SenseCall(eIn) ==
  /\ pc = "idle"
  /\ calRet.called /\ ~calRet.panic
  /\ pc' = "readReg"
  /\ e' = eIn
  /\ e0' = eIn
  /\ FreshLocals
  /\ UNCHANGED <<devVars, calVars, ret, reads, steps, idle, pureVars>>

\* d.readReg(0x1F, b): the transport fails, or fills b from the registers.
SenseRead(rerr, s) ==
  /\ pc = "readReg"
  /\ LET data == IF rerr = "nil" THEN SubSeq(RegBytes(s), 1, readLen(isBME)) ELSE <<>>
     IN  /\ reads' = Append(reads, [addr |-> 31, len |-> readLen(isBME),
                                    err |-> rerr, data |-> data])
         /\ buf' = fillBuf(buf, data)
  /\ pc' = afterRead(rerr)
  /\ ret' = IF afterRead(rerr) = "return" THEN rerr ELSE ret
  /\ UNCHANGED <<devVars, calVars, e, e0, pRaw, tRaw, t, tFine, p, divided, hRaw,
                 h, steps, idle, pureVars>>

\* The raw codes, compensateTempInt, e.Temperature.
SenseTemp ==
  /\ pc = "temp"
  /\ pRaw' = raw20(buf, 0)
  /\ tRaw' = raw20(buf, 3)
  /\ \E r \in {compensateTempInt(cal68x, raw20(buf, 3))} :
       /\ t' = r[1]
       /\ tFine' = r[2]
  /\ e' = [e EXCEPT !.Temperature = scaleTemperature(t')]
  /\ steps' = Append(steps, [op |-> "temp", raw |-> tRaw', tFine |-> tFine'])
  /\ pc' = NextStep(pc)
  /\ ret' = IF NextStep(pc) = "return" THEN "nil" ELSE ret
  /\ UNCHANGED <<devVars, calVars, e0, buf, p, divided, hRaw, h, reads, idle, pureVars>>

\* if d.opts.Pressure != Off { compensatePressureFloat, e.Pressure }
SensePressure ==
  /\ pc = "pressure"
  /\ IF wantPressure(opts)
     THEN \E r \in compensatePressureFloat(cal68x, pRaw, tFine) :
          \E P \in Int64OfFloat(FMul(r.calc_pres, FFromInt(256))) :
            /\ p' = r.calc_pres
            /\ divided' = r.divided
            /\ e' = [e EXCEPT !.Pressure = scalePressure(P)]
            /\ steps' = Append(steps, [op |-> "pressure", raw |-> pRaw, tFine |-> tFine])
     ELSE UNCHANGED <<p, divided, e, steps>>
  /\ pc' = NextStep(pc)
  /\ ret' = IF NextStep(pc) = "return" THEN "nil" ELSE ret
  /\ UNCHANGED <<devVars, calVars, e0, buf, pRaw, tRaw, t, tFine, hRaw, h, reads,
                 idle, pureVars>>

\* if d.opts.Humidity != Off { hRaw, compensateHumidityInt, e.Humidity }
SenseHumidity ==
  /\ pc = "humidity"
  /\ IF wantHumidity(opts)
     THEN /\ hRaw' = raw16(buf)
          /\ h' = compensateHumidityInt(cal68x, hRaw', tFine)
          /\ e' = [e EXCEPT !.Humidity = scaleHumidity(h')]
          /\ steps' = Append(steps, [op |-> "humidity", raw |-> hRaw', tFine |-> tFine])
     ELSE UNCHANGED <<hRaw, h, e, steps>>
  /\ pc' = NextStep(pc)
  /\ ret' = IF NextStep(pc) = "return" THEN "nil" ELSE ret
  /\ UNCHANGED <<devVars, calVars, e0, buf, pRaw, tRaw, t, tFine, p, divided, reads,
                 idle, pureVars>>

\* sense68x has returned ret; its frame is gone, the reading is the caller's.
SenseReturn ==
  /\ pc = "return"
  /\ pc' = "idle"
  /\ e0' = e
  /\ FreshLocals
  /\ ret' = "none"
  /\ reads' = <<>>
  /\ steps' = <<>>
  /\ UNCHANGED <<devVars, calVars, e, idle, pureVars>>

Next ==
  \/ \E s \in CalSeeds, nt \in TphLens, nh \in HLens : NewCalibration(s, nt, nh)
  \/ \E rerr \in TransportErrors \cup {"nil"}, v \in Byte : IsIdle(rerr, v)
  \/ IdleReturn
  \/ \E eIn \in EnvInputs \cup {e} : SenseCall(eIn)
  \/ \E rerr \in TransportErrors \cup {"nil"}, s \in RegSeeds : SenseRead(rerr, s)
  \/ SenseTemp
  \/ SensePressure
  \/ SenseHumidity
  \/ SenseReturn

Spec == Init /\ [][Next]_vars

\* ------------------------------------------------------------------------
\* compensateTempInt and compensateHumidityInt on their own: every call with
\* arguments from the ends and the middle of each parameter's type.
\* ------------------------------------------------------------------------

\* t1 uint16, t2 int16, t3 int8 and the 20-bit codes sense68x can extract.
TempCals ==
  {[ZeroCal EXCEPT !.t1 = a, !.t2 = b, !.t3 = d] :
     a \in {0, 1, 26370, 65535}, b \in {-32768, -1, 0, 26370, 32767},
     d \in {-128, 0, 3, 127}}

TempRaws == {0, 7, 497528, 2^20 - 1}

\* h1, h2 12 bits, h3, h4, h5, h7 int8, h6 uint8.
HumCals ==
  {[ZeroCal EXCEPT !.h1 = a[1], !.h2 = a[2], !.h3 = b[1], !.h4 = b[2],
                   !.h5 = b[3], !.h6 = d, !.h7 = b[4]] :
     a \in {<<0, 0>>, <<0, 4095>>, <<4095, 0>>, <<4095, 4095>>, <<793, 1014>>},
     b \in {<<-128, -128, -128, -128>>, <<127, 127, 127, 127>>, <<-128, 127, -128, 127>>,
            <<127, -128, 127, -128>>, <<0, 45, 20, -100>>},
     d \in {0, 120, 255}}

HumRaws == {0, 24459, 2^16 - 1}

HumTFines == {MinInt32, -1, 0, 128000, MaxInt32}

\* No device is in use while a function is tried on its own.
InitPure ==
  /\ isBME = FALSE
  /\ opts = [Pressure |-> "Off", Humidity |-> "Off"]
  /\ InitDevice
  /\ res = NoRes

InitTemp ==
  /\ InitPure
  /\ arg \in [fn : {"temp"}, c : TempCals, raw : TempRaws]

\* c.compensateTempInt(raw), with the int64 values it narrows.
CallTemp ==
  /\ arg.fn = "temp"
  /\ ~res.done
  /\ res' = [done |-> TRUE,
             tFine64 |-> tFine64(arg.c, arg.raw),
             centi64 |-> centi64(arg.c, arg.raw),
             ret |-> compensateTempInt(arg.c, arg.raw)]
  /\ UNCHANGED <<devVars, calVars, pc, e, e0, locals, ret, reads, steps, idle, arg>>

SpecTemp == InitTemp /\ [][CallTemp]_vars

InitHum ==
  /\ InitPure
  /\ arg \in [fn : {"hum"}, c : HumCals, raw : HumRaws, tFine : HumTFines]

\* c.compensateHumidityInt(raw, tFine), with calcHum as it stood before the cap.
CallHum ==
  /\ arg.fn = "hum"
  /\ ~res.done
  /\ res' = [done |-> TRUE,
             calcHum |-> calcHum(arg.c, arg.raw, arg.tFine),
             ret |-> compensateHumidityInt(arg.c, arg.raw, arg.tFine)]
  /\ UNCHANGED <<devVars, calVars, pc, e, e0, locals, ret, reads, steps, idle, arg>>

SpecHum == InitHum /\ [][CallHum]_vars

\* ------------------------------------------------------------------------
\* Properties
\* ------------------------------------------------------------------------

\* sense68x is past its register read.
AfterRead == pc \in {"temp", "pressure", "humidity", "return"}

\* sense68x is about to return nil.
Succeeded == pc = "return" /\ ret = "nil"

\* C1: every call of sense68x issues exactly one read, at 0x1F, of 8 bytes
\* when humidity is requested and of 6 bytes when it is not, and a requested
\* hRaw is (byte6<<8)|byte7 of the bytes that read returned.
C1_OneReadSizedByHumidity ==
  AfterRead =>
    /\ Len(reads) = 1
    /\ reads[1].addr = 31
    /\ reads[1].len = (IF opts.Humidity # "Off" THEN 8 ELSE 6)
    /\ \A i \in 1..Len(steps) :
         steps[i].op = "humidity" =>
           /\ Len(reads[1].data) = 8
           /\ steps[i].raw = reads[1].data[7] * 256 + reads[1].data[8]

\* C2: a failed register read ends the operation at once with that same
\* error: one read only, no compensation step, the caller's reading as it
\* was on entry; isIdle68x returns false with the error.
C2_ReadErrorReturnedAtOnce ==
  /\ (pc = "return" /\ ret # "nil") =>
       /\ ret \in TransportErrors
       /\ Len(reads) = 1
       /\ reads[1].err = ret
       /\ steps = <<>>
       /\ e = e0
  /\ (pc \in {"temp", "pressure", "humidity"} \/ Succeeded) =>
       /\ Len(reads) = 1
       /\ reads[1].err = "nil"
  /\ pc = "idleReturn" =>
       /\ Len(reads) = 1
       /\ idle.err = reads[1].err
       /\ (reads[1].err # "nil" => ~idle.idle)

C2_Witness ==
  /\ pc = "return"
  /\ ret = "EIO"
  /\ e0 = StaleEnv
  /\ e = StaleEnv
  /\ opts.Pressure # "Off"

\* C3: newCalibration68x fails with a size error, before indexing anything,
\* when tph has fewer than 23 bytes or h fewer than 9, and returns the
\* coefficients otherwise; it never reads outside the two blocks.
C3_SizeErrorBeforeIndexing ==
  calRet.called =>
    IF Len(calArgs.tph) < 23 \/ Len(calArgs.h) < 9
    THEN calRet.sizeError /\ calRet.indexed = 0 /\ ~calRet.panic
    ELSE ~calRet.sizeError /\ ~calRet.panic

ReadTRaw == raw20(fillBuf(ZeroBuf, reads[1].data), 3)

\* The temperature a successful call stores: a function of the calibration
\* and of bytes 3..5 of the read alone.
TemperatureOfRead ==
  e.Temperature = scaleTemperature(compensateTempInt(cal68x, ReadTRaw)[1])

C7_ZeroDenominatorGivesZero ==
  \A i \in 1..Len(steps) :
    (steps[i].op = "pressure"
       /\ FTrunc(pressVar1(cal68x, steps[i].tFine)) = ZZero) =>
      /\ p = FZero
      /\ ~divided
      /\ e.Pressure = ZZero
      /\ pc = "return" => ret = "nil"

\* var1 is not zero, and less than 1 in magnitude.
C7_Witness ==
  /\ Succeeded
  /\ Len(steps) >= 2
  /\ steps[2].op = "pressure"
  /\ pressVar1(cal68x, tFine) # FZero
  /\ FTrunc(pressVar1(cal68x, tFine)) = ZZero
  /\ e.Pressure = ZZero
  /\ e0 = StaleEnv

\* C8: for blocks long enough, every coefficient is the value of its bit
\* formula: little-endian pairs read as two's-complement int16 or as uint16,
\* single bytes as int8 or uint8, and the nibble-split h1, h2 within 0..4095.
C8_CoefficientsMatchFormulas ==
  (calRet.called /\ Len(calArgs.tph) >= 23 /\ Len(calArgs.h) >= 10) =>
    LET T(i) == calArgs.tph[i + 1]
        H(i) == calArgs.h[i + 1]
        U16(lo, hi) == lo + 256 * hi
        S16(lo, hi) == IF lo + 256 * hi >= 32768 THEN lo + 256 * hi - 65536
                       ELSE lo + 256 * hi
        S8(b) == IF b >= 128 THEN b - 256 ELSE b
    IN  /\ ~calRet.panic
        /\ cal68x.t1 = U16(H(8), H(9))
        /\ cal68x.t2 = S16(T(0), T(1))
        /\ cal68x.t3 = S8(T(2))
        /\ cal68x.p1 = U16(T(4), T(5))
        /\ cal68x.p2 = S16(T(6), T(7))
        /\ cal68x.p3 = S8(T(8))
        /\ cal68x.p4 = S16(T(10), T(11))
        /\ cal68x.p5 = S16(T(12), T(13))
        /\ cal68x.p6 = S8(T(15))
        /\ cal68x.p7 = S8(T(14))
        /\ cal68x.p8 = S16(T(18), T(19))
        /\ cal68x.p9 = S16(T(20), T(21))
        /\ cal68x.p10 = T(22)
        /\ cal68x.h1 = (H(1) % 16) + 16 * H(2)
        /\ cal68x.h2 = (H(1) \div 16) + 16 * H(0)
        /\ cal68x.h1 \in 0..4095
        /\ cal68x.h2 \in 0..4095
        /\ cal68x.h3 = S8(H(3))
        /\ cal68x.h4 = S8(H(4))
        /\ cal68x.h5 = S8(H(5))
        /\ cal68x.h6 = H(6)
        /\ cal68x.h7 = S8(H(7))

C8_Witness ==
  /\ calRet.called
  /\ ~calRet.panic
  /\ cal68x.t2 = 26370
  /\ cal68x.p2 = -10371
  /\ cal68x.h1 = 787
  /\ cal68x.h2 = 1014

\* C9: in a successful call the read comes first, then temperature, then
\* pressure if requested, then humidity if requested; temperature always
\* runs, and the tFine given to pressure and humidity is the one computed
\* from the tRaw of this call's read.
C9_StepsInOrder ==
  LET want == <<"temp">>
              \o (IF opts.Pressure # "Off" THEN <<"pressure">> ELSE <<>>)
              \o (IF opts.Humidity # "Off" THEN <<"humidity">> ELSE <<>>)
      ops  == [i \in 1..Len(steps) |-> steps[i].op]
  IN  /\ pc \in {"idle", "idleReturn", "readReg", "temp"} => steps = <<>>
      /\ Len(steps) > 0 =>
           /\ Len(reads) = 1
           /\ reads[1].err = "nil"
           /\ Len(ops) <= Len(want)
           /\ ops = SubSeq(want, 1, Len(ops))
           /\ steps[1].raw = ReadTRaw
           /\ \A i \in 1..Len(steps) :
                steps[i].tFine = compensateTempInt(cal68x, ReadTRaw)[2]
      /\ pc = "pressure" => Len(steps) = 1
      /\ Succeeded => ops = want

C9_Witness ==
  /\ Succeeded
  /\ Len(steps) = 3
  /\ steps[3].op = "humidity"
  /\ steps[3].tFine # 0
  /\ e0 = StaleEnv

\* C6: for every raw code, tFine and h1..h7, wrapping products included,
\* compensateHumidityInt returns 100000 when calcHum is above 100000, 0 when
\* it is below 0 and calcHum otherwise, so always a value in 0..100000.
C6_HumidityCapped ==
  res.done =>
    /\ res.ret \in 0..100000
    /\ res.calcHum > 100000 => res.ret = 100000
    /\ res.calcHum < 0 => res.ret = 0
    /\ res.calcHum \in 0..100000 => res.ret = res.calcHum

\* A product that wrapped around and left calcHum below zero.
C6_Witness ==
  /\ res.done
  /\ arg.tFine = MaxInt32
  /\ res.calcHum < 0
  /\ res.ret = 0

\* C10: for every 20-bit raw code and every t1, t2, t3, the int64 tFine and
\* the int64 centi-degrees of compensateTempInt fit int32, and tempScaled =
\* ((tFine*5)+128)>>8 of compensateHumidityInt does not overflow int32 and
\* equals the temperature compensateTempInt returned.
C10_TemperatureFitsInt32 ==
  res.done =>
    /\ ZFits(res.tFine64, 32)
    /\ ZFits(res.centi64, 32)
    /\ res.ret = <<ZToInt(res.centi64), ZToInt(res.tFine64)>>
    /\ ZFits(ZAdd(ZMul(res.tFine64, ZFromInt(5)), ZFromInt(128)), 32)
    /\ tempScaled(res.ret[2]) = res.ret[1]

\* The largest var1 in magnitude, with the largest coefficients.
C10_Witness ==
  /\ res.done
  /\ arg.c.t1 = 65535
  /\ arg.c.t2 = -32768
  /\ arg.c.t3 = 127
  /\ arg.raw = 0
  /\ res.ret[2] > 2^21


====
